---- MODULE Spec2Model ----
(***************************************************************************)
(* Snowflake ID generator of review-service (pkg/snowflake/snowflake.go).  *)
(*                                                                         *)
(* The generator packs  1 sign bit | timestamp | machine ID | sequence     *)
(* into one int64.  The model keeps the layout and the two's-complement    *)
(* arithmetic of the code and scales the three field widths and the time   *)
(* axis down (timestampBits, machineIDBits, sequenceBits, defaultStartTime *)
(* and ClockMax are in model units), so that the word has                  *)
(* 1 + timestampBits + machineIDBits + sequenceBits bits instead of 64.    *)
(*                                                                         *)
(* A node is one OS process: it has its own global `instance` pointer.     *)
(* Snowflake objects live in `heap`; a pointer is an index into it, 0 is   *)
(* nil.  Goroutines (Procs) call GetID; Init is called on a node.          *)
(***************************************************************************)
EXTENDS Integers, Sequences, FiniteSets, TLC

\* ---------------------------------------------------------------- bounds
\* Field widths (41, 10 and 12 bits in the source, scaled down).
timestampBits == 1
machineIDBits == 1
sequenceBits == 1
\* Default epoch in model milliseconds (1672502400000 in the source).
defaultStartTime == 1
\* time.Now().UnixMilli() reads a value in 0..ClockMax: any value at any
\* read (the clock may stall, advance and roll back, also to before the
\* epoch of the generator), but none before 1970.
ClockMax == 4
\* At most MaxInits successful Init calls (Snowflake objects ever allocated).
MaxInits == 2

\* ------------------------------------------------------------- constants
RECURSIVE Pow2(_)
Pow2(n) == IF n = 0 THEN 1 ELSE 2 * Pow2(n - 1)

maxMachineID == Pow2(machineIDBits) - 1
maxSequence == Pow2(sequenceBits) - 1

\* Width of the int64 of the model.
WordBits == 1 + timestampBits + machineIDBits + sequenceBits

Nodes == {1, 2}
Procs == {1, 2, 3}
\* Goroutines 1 and 2 run in the process of node 1, goroutine 3 on node 2.
NodeOf(p) == IF p = 3 THEN 2 ELSE 1

Clock == 0 .. ClockMax
\* The specifications that enumerate every Init configuration, run two
\* nodes or call Init again let the clock read the default epoch or the
\* millisecond before it.
ShortClock == (defaultStartTime - 1) .. defaultStartTime

\* -------------------------------------------------- int64 arithmetic
\* Two's-complement wrap of a mathematical integer to WordBits bits.
Int64(x) ==
    LET u == x % Pow2(WordBits)
    IN  IF u >= Pow2(WordBits - 1) THEN u - Pow2(WordBits) ELSE u

Unsigned(x) == x % Pow2(WordBits)

RECURSIVE OrBits(_, _, _)
OrBits(a, b, n) ==
    IF n = 0 THEN 0
    ELSE (IF (a % 2 = 1) \/ (b % 2 = 1) THEN 1 ELSE 0)
         + 2 * OrBits(a \div 2, b \div 2, n - 1)

RECURSIVE AndBits(_, _, _)
AndBits(a, b, n) ==
    IF n = 0 THEN 0
    ELSE (IF (a % 2 = 1) /\ (b % 2 = 1) THEN 1 ELSE 0)
         + 2 * AndBits(a \div 2, b \div 2, n - 1)

\* Go's  a | b,  a & b,  a << k  and  a >> k  on int64.
BitOr(a, b) == Int64(OrBits(Unsigned(a), Unsigned(b), WordBits))
BitAnd(a, b) == Int64(AndBits(Unsigned(a), Unsigned(b), WordBits))
Shl(a, k) == Int64(a * Pow2(k))
Shr(a, k) == a \div Pow2(k)

\* ------------------------------------------------------------- state
VARIABLES
    instance,   \* instance[n]: the global `instance` of node n (0 = nil)
    heap,       \* the Snowflake objects allocated so far
    pc,         \* pc[p]: where goroutine p is inside GetID / nextID
    s,          \* s[p]: receiver of p's nextID call (0 outside a call)
    now,        \* now[p]: the local `now` of p's nextID call
    after,      \* after[p]: p's call began after the sampled call returned
    waited,     \* waited[p]: the busy-wait loop p's call has entered, if any
    sample,     \* << >> or <<r>>: one returned ID, picked once, arbitrarily
    ret,        \* << >> or <<r>>: an ID returned after the sample
    result,     \* outcome of the last Init call, or of a GetID that panicked
    rpc,        \* rpc[p]: where goroutine p is inside CreateReview
    review,     \* review[p]: the *model.ReviewInfo of p's CreateReview call
    reviews,    \* the rows SaveReview has stored
    outcome     \* outcome[p]: how p's last CreateReview call ended

\* The state of the snowflake package and the state of the review usecase.
bizVars == <<rpc, review, reviews, outcome>>
vars == <<instance, heap, pc, s, now, after, waited, sample, ret, result,
          rpc, review, reviews, outcome>>

\* Config.StartTime values: empty, a calendar date, and garbage.
StartTimes == {"", "2022-12-31", "not-a-date"}
\* Config.MachineID values: both sides of both range limits.
MachineIDs == (0 - 1) .. (maxMachineID + 1)
Configs == [MachineID : MachineIDs, StartTime : StartTimes]

\* time.ParseInLocation(timeLayout, str, Asia/Shanghai) then UnixMilli():
\* "2022-12-31" lies one model millisecond before the default epoch
\* (2023-01-01), anything else does not match the layout.
ParseInLocation(str) ==
    CASE str = "2022-12-31" -> [err |-> FALSE, ms |-> defaultStartTime - 1]
      [] OTHER -> [err |-> TRUE, ms |-> 0]

\* Off by one at the upper limit of the machine ID.
MachineIDOutOfRangeOffByOne(config) ==
    config.MachineID < 0 \/ config.MachineID > maxMachineID + 1
\* No upper limit of the machine ID.
MachineIDNegativeOnly(config) == config.MachineID < 0

\* Init, step 1: the machine ID is out of range.
MachineIDOutOfRange(config) ==
    config.MachineID < 0 \/ config.MachineID > maxMachineID

\* Init, step 2: the resolved startTime.
ResolveStartTime(config) ==
    IF config.StartTime = "" THEN defaultStartTime
    ELSE ParseInLocation(config.StartTime).ms

\* A start time equal to the clock reading rejected too.
StartTimeNotPast(startTime, t) == startTime >= t

\* Init, step 3: the start time lies in the future of the clock reading t.
StartTimeInFuture(startTime, t) == startTime > t

\* The outcome of Init(config) when LoadLocation succeeds iff tzOK and the
\* clock reads t: "ok" or the panic it raises.
InitOutcome(config, tzOK, t) ==
    IF MachineIDOutOfRange(config) THEN "InvalidMachineId"
    ELSE IF config.StartTime # "" /\ ~tzOK THEN "LoadLocationFailed"
    ELSE IF config.StartTime # "" /\ ParseInLocation(config.StartTime).err
         THEN "InvalidStartTime"
    ELSE IF StartTimeInFuture(ResolveStartTime(config), t)
         THEN "StartTimeInFuture"
    ELSE "ok"

\* A Snowflake that starts with lastTimestamp 0 instead of the sentinel -1.
NewSnowflakeZeroTimestamp(config) ==
    [ startTime     |-> ResolveStartTime(config),
      machineID     |-> config.MachineID,
      lastTimestamp |-> 0,
      sequence      |-> 0,
      mu            |-> 0,
      issuedAt      |-> 0 ]

\* Init, step 4: the object a successful Init allocates.  issuedAt is a
\* history field: the number of IDs returned with timestamp lastTimestamp.
NewSnowflake(config) ==
    [ startTime     |-> ResolveStartTime(config),
      machineID     |-> config.MachineID,
      lastTimestamp |-> 0 - 1,
      sequence      |-> 0,
      mu            |-> 0,
      issuedAt      |-> 0 ]

\* The machine ID shifted one bit short, into the sequence field.
PackIDShortShift(t, obj) ==
    BitOr(BitOr(Shl(Int64(t - obj.startTime), machineIDBits + sequenceBits),
                Shl(obj.machineID, sequenceBits - 1)),
          obj.sequence)

\* nextID, step 4: the packed ID.
PackID(t, obj) ==
    BitOr(BitOr(Shl(Int64(t - obj.startTime), machineIDBits + sequenceBits),
                Shl(obj.machineID, sequenceBits)),
          obj.sequence)

\* A rollback that is not waited for.
RollbackNoWait(t, obj) == FALSE
\* A rollback wait that is left one millisecond early.
RollbackWaitShort(t, obj) == t < obj.lastTimestamp - 1
\* A rollback wait that is left when the clock is back at lastTimestamp.
RollbackWaitUntilEqual(t, obj) == t < obj.lastTimestamp
\* An overflow wait that accepts the exhausted millisecond.
OverflowWaitStrict(t, obj) == t < obj.lastTimestamp
\* An overflow wait that is never left.
OverflowWaitForever(t, obj) == TRUE
\* An overflow test that lets one more sequence number through.
SequenceOverflowLate(seq) == seq > maxSequence + 1

\* Loop conditions of the two busy-wait loops of nextID, and the test that
\* the incremented sequence has left its field.
RollbackWaitCond(t, obj) == t <= obj.lastTimestamp
OverflowWaitCond(t, obj) == t <= obj.lastTimestamp
SequenceOverflow(seq) == seq > maxSequence

Pcs == {"idle", "lock", "read", "rollback", "seq", "overflow", "pack"}

\* review.OrderID values, and the review of a goroutine that is not inside
\* CreateReview.  had is a history field: the order had a stored review when
\* the call began.
Orders == {1, 2}
NoReview == [OrderID |-> 0, ReviewID |-> 0, had |-> FALSE]

TypeOK ==
    /\ instance \in [Nodes -> 0 .. MaxInits]
    /\ Len(heap) <= MaxInits
    /\ pc \in [Procs -> Pcs]
    /\ s \in [Procs -> 0 .. MaxInits]
    /\ now \in [Procs -> Clock]
    /\ after \in [Procs -> BOOLEAN]
    /\ waited \in [Procs -> {"", "rollback", "overflow"}]
    /\ Len(sample) <= 1
    /\ Len(ret) <= 1
    /\ rpc \in [Procs -> {"none", "check", "getid", "save"}]
    /\ \A p \in Procs : review[p].OrderID \in Orders \cup {0}
    /\ \A i \in 1 .. Len(reviews) : reviews[i].OrderID \in Orders

Init ==
    /\ instance = [n \in Nodes |-> 0]
    /\ heap = << >>
    /\ pc = [p \in Procs |-> "idle"]
    /\ s = [p \in Procs |-> 0]
    /\ now = [p \in Procs |-> 0]
    /\ after = [p \in Procs |-> FALSE]
    /\ waited = [p \in Procs |-> ""]
    /\ sample = << >>
    /\ ret = << >>
    /\ result = "none"
    /\ rpc = [p \in Procs |-> "none"]
    /\ review = [p \in Procs |-> NoReview]
    /\ reviews = << >>
    /\ outcome = [p \in Procs |-> "none"]

\* ------------------------------------------------------------ actions
\* An Init that publishes the instance before it validates the start time.
InitCallPublishFirst(n, config, tzOK, t) ==
    /\ result' = InitOutcome(config, tzOK, t)
    /\ IF ~MachineIDOutOfRange(config)
       THEN /\ Len(heap) < MaxInits
            /\ heap' = Append(heap, NewSnowflake(config))
            /\ instance' = [instance EXCEPT ![n] = Len(heap) + 1]
       ELSE UNCHANGED <<heap, instance>>
    /\ UNCHANGED <<pc, s, now, after, waited, sample, ret>>
    /\ UNCHANGED bizVars

\* snowflake.Init(config) called in the process of node n.
InitCall(n, config, tzOK, t) ==
    /\ result' = InitOutcome(config, tzOK, t)
    /\ IF InitOutcome(config, tzOK, t) = "ok"
       THEN /\ Len(heap) < MaxInits
            /\ heap' = Append(heap, NewSnowflake(config))
            /\ instance' = [instance EXCEPT ![n] = Len(heap) + 1]
       ELSE UNCHANGED <<heap, instance>>
    /\ UNCHANGED <<pc, s, now, after, waited, sample, ret>>
    /\ UNCHANGED bizVars

\* A GetID that creates a default instance when none is published.
GetIDLazyInit(p) ==
    /\ pc[p] = "idle"
    /\ IF instance[NodeOf(p)] = 0
       THEN /\ Len(heap) < MaxInits
            /\ heap' = Append(heap, NewSnowflake([MachineID |-> 0,
                                                  StartTime |-> ""]))
            /\ instance' = [instance EXCEPT ![NodeOf(p)] = Len(heap) + 1]
            /\ s' = [s EXCEPT ![p] = Len(heap) + 1]
       ELSE /\ s' = [s EXCEPT ![p] = instance[NodeOf(p)]]
            /\ UNCHANGED <<instance, heap>>
    /\ pc' = [pc EXCEPT ![p] = "lock"]
    /\ after' = [after EXCEPT ![p] = (sample # << >>)]
    /\ UNCHANGED <<now, waited, sample, ret, result>>
    /\ UNCHANGED bizVars

\* GetID: nil check, then the call of instance.nextID().
GetIDCall(p) ==
    /\ pc[p] = "idle"
    /\ IF instance[NodeOf(p)] = 0
       THEN /\ result' = "NotInitialized"
            /\ UNCHANGED <<pc, s, after>>
       ELSE /\ pc' = [pc EXCEPT ![p] = "lock"]
            /\ s' = [s EXCEPT ![p] = instance[NodeOf(p)]]
            /\ after' = [after EXCEPT ![p] = (sample # << >>)]
            /\ UNCHANGED result
    /\ UNCHANGED <<instance, heap, now, waited, sample, ret>>

\* GetID called from outside CreateReview.
GetID(p) == GetIDCall(p) /\ UNCHANGED bizVars

\* A Lock that does not wait for the mutex to be free.
LockBarging(p) ==
    /\ pc[p] = "lock"
    /\ heap' = [heap EXCEPT ![s[p]].mu = p]
    /\ pc' = [pc EXCEPT ![p] = "read"]
    /\ UNCHANGED <<instance, s, now, after, waited, sample, ret, result>>
    /\ UNCHANGED bizVars

\* nextID: s.mu.Lock()
Lock(p) ==
    /\ pc[p] = "lock"
    /\ heap[s[p]].mu = 0
    /\ heap' = [heap EXCEPT ![s[p]].mu = p]
    /\ pc' = [pc EXCEPT ![p] = "read"]
    /\ UNCHANGED <<instance, s, now, after, waited, sample, ret, result>>
    /\ UNCHANGED bizVars

\* nextID: now := time.Now().UnixMilli(); on a rollback (now before
\* lastTimestamp) the rollback loop is entered if its condition holds.
ReadClock(p, t) ==
    /\ pc[p] = "read"
    /\ now' = [now EXCEPT ![p] = t]
    /\ LET loop == t < heap[s[p]].lastTimestamp
                     /\ RollbackWaitCond(t, heap[s[p]])
       IN  /\ pc' = [pc EXCEPT ![p] = IF loop THEN "rollback" ELSE "seq"]
           /\ waited' = [waited EXCEPT ![p] = IF loop THEN "rollback" ELSE ""]
    /\ UNCHANGED <<instance, heap, s, after, sample, ret, result>>
    /\ UNCHANGED bizVars

\* nextID: one iteration of the rollback loop.
RollbackWait(p, t) ==
    /\ pc[p] = "rollback"
    /\ now' = [now EXCEPT ![p] = t]
    /\ pc' = [pc EXCEPT ![p] =
                IF RollbackWaitCond(t, heap[s[p]]) THEN "rollback" ELSE "seq"]
    /\ UNCHANGED <<instance, heap, s, after, waited, sample, ret, result>>
    /\ UNCHANGED bizVars

\* nextID, step 2 and 3: the sequence number for this call.  In the same
\* millisecond the sequence is incremented; if it has left its field, the
\* overflow loop is entered if its condition holds, else the sequence is
\* reset at once.
SeqStep(p) ==
    /\ pc[p] = "seq"
    /\ LET obj == heap[s[p]]
           full == SequenceOverflow(obj.sequence + 1)
           loop == full /\ OverflowWaitCond(now[p], obj)
       IN  IF now[p] = obj.lastTimestamp
           THEN /\ heap' = [heap EXCEPT ![s[p]].sequence =
                              IF full /\ ~loop THEN 0 ELSE obj.sequence + 1]
                /\ pc' = [pc EXCEPT ![p] = IF loop THEN "overflow" ELSE "pack"]
                /\ waited' = [waited EXCEPT ![p] =
                                IF loop THEN "overflow" ELSE @]
           ELSE /\ heap' = [heap EXCEPT ![s[p]].sequence = 0]
                /\ pc' = [pc EXCEPT ![p] = "pack"]
                /\ UNCHANGED waited
    /\ UNCHANGED <<instance, s, now, after, sample, ret, result>>
    /\ UNCHANGED bizVars

\* An overflow loop that is left without the reset of the sequence.
OverflowWaitNoReset(p, t) ==
    /\ pc[p] = "overflow"
    /\ now' = [now EXCEPT ![p] = t]
    /\ pc' = [pc EXCEPT ![p] =
                IF OverflowWaitCond(t, heap[s[p]]) THEN "overflow" ELSE "pack"]
    /\ UNCHANGED <<instance, heap, s, after, waited, sample, ret, result>>
    /\ UNCHANGED bizVars

\* nextID: one iteration of the overflow loop; the sequence is reset when
\* the loop is left.
OverflowWait(p, t) ==
    /\ pc[p] = "overflow"
    /\ now' = [now EXCEPT ![p] = t]
    /\ IF OverflowWaitCond(t, heap[s[p]])
       THEN UNCHANGED <<heap, pc>>
       ELSE /\ heap' = [heap EXCEPT ![s[p]].sequence = 0]
            /\ pc' = [pc EXCEPT ![p] = "pack"]
    /\ UNCHANGED <<instance, s, after, waited, sample, ret, result>>
    /\ UNCHANGED bizVars

\* The record kept of the ID that p's call returns.
Returned(p) ==
    LET obj == heap[s[p]] IN
    [ id    |-> PackID(now[p], obj),
      inst  |-> s[p],
      now   |-> now[p],
      seq   |-> obj.sequence,
      nth   |-> IF now[p] = obj.lastTimestamp THEN obj.issuedAt + 1 ELSE 1,
      after |-> after[p],
      waited |-> waited[p] ]

\* nextID: lastTimestamp = now, pack, deferred Unlock, return.  The returned
\* ID is kept as the sample (if none was taken yet), or as the ID returned
\* after the sample, or it is not kept.
ReturnID(p, pick) ==
    /\ pc[p] = "pack"
    /\ heap' = [heap EXCEPT ![s[p]].lastTimestamp = now[p],
                            ![s[p]].mu = 0,
                            ![s[p]].issuedAt = Returned(p).nth]
    /\ CASE pick = "sample" -> /\ sample = << >>
                               /\ sample' = <<Returned(p)>>
                               /\ ret' = ret
         [] pick = "ret"    -> /\ sample # << >>
                               /\ sample' = sample
                               /\ ret' = <<Returned(p)>>
         [] OTHER           -> UNCHANGED <<sample, ret>>
    /\ pc' = [pc EXCEPT ![p] = "idle"]
    /\ s' = [s EXCEPT ![p] = 0]
    /\ now' = [now EXCEPT ![p] = 0]
    /\ after' = [after EXCEPT ![p] = FALSE]
    /\ waited' = [waited EXCEPT ![p] = ""]
    /\ UNCHANGED <<instance, result>>

\* nextID returning to a caller outside CreateReview.
Return(p, pick) == ReturnID(p, pick) /\ UNCHANGED bizVars

\* What may be done with a returned ID: see ReturnID.
Picks == {"sample", "ret", "none"}

\* One process (node 1) with two goroutines, started by one successful Init.
\* Once the sample is taken, ret is the latest ID returned.
Next ==
    \/ \E config \in Configs, tzOK \in BOOLEAN, t \in Clock :
          /\ InitOutcome(config, tzOK, t) = "ok"
          /\ instance[1] = 0
          /\ InitCall(1, config, tzOK, t)
    \/ \E p \in {1, 2} : GetID(p)
    \/ \E p \in {1, 2} : Lock(p)
    \/ \E p \in {1, 2}, t \in Clock : ReadClock(p, t)
    \/ \E p \in {1, 2}, t \in Clock : RollbackWait(p, t)
    \/ \E p \in {1, 2} : SeqStep(p)
    \/ \E p \in {1, 2}, t \in Clock : OverflowWait(p, t)
    \/ \E p \in {1, 2}, pick \in Picks :
          /\ sample # << >> => pick = "ret"
          /\ Return(p, pick)

Spec == Init /\ [][Next]_vars

\* One process with one goroutine calling GetID while Init is called with
\* every configuration, valid or not, any number of times; the first Init
\* that succeeds is the last one.
NextInit ==
    \/ \E config \in Configs, tzOK \in BOOLEAN, t \in ShortClock :
          /\ InitOutcome(config, tzOK, t) = "ok" => instance[1] = 0
          /\ InitCall(1, config, tzOK, t)
    \/ GetID(1)
    \/ Lock(1)
    \/ \E t \in ShortClock : ReadClock(1, t)
    \/ \E t \in ShortClock : RollbackWait(1, t)
    \/ SeqStep(1)
    \/ \E t \in ShortClock : OverflowWait(1, t)
    \/ Return(1, "none")

SpecInit == Init /\ [][NextInit]_vars

\* Two processes (nodes 1 and 2), one goroutine each (1 and 3), each
\* started by one successful Init of its own; the deployment gives every
\* node a machine ID of its own and calls GetID once it is started.  The
\* sample is an ID of node 1, and ret is
\* the latest ID that node 2 returned after it (the two nodes are alike, so
\* the other way round is the same with the node names exchanged).
NextCluster ==
    \/ \E n \in Nodes, config \in Configs, tzOK \in BOOLEAN, t \in ShortClock :
          /\ InitOutcome(config, tzOK, t) = "ok"
          /\ instance[n] = 0
          /\ \A i \in 1 .. Len(heap) : heap[i].machineID # config.MachineID
          /\ InitCall(n, config, tzOK, t)
    \/ \E p \in {1, 3} :
          /\ instance[NodeOf(p)] # 0
          /\ GetID(p)
    \/ \E p \in {1, 3} : Lock(p)
    \/ \E p \in {1, 3}, t \in ShortClock : ReadClock(p, t)
    \/ \E p \in {1, 3}, t \in ShortClock : RollbackWait(p, t)
    \/ \E p \in {1, 3} : SeqStep(p)
    \/ \E p \in {1, 3}, t \in ShortClock : OverflowWait(p, t)
    \/ \E p \in {1, 3}, pick \in Picks :
          /\ pick = "sample" => p = 1
          /\ pick = "ret" => p = 3
          /\ (p = 3 /\ sample # << >>) => pick = "ret"
          /\ Return(p, pick)

SpecCluster == Init /\ [][NextCluster]_vars

\* nextID: the reading that ends a busy-wait loop, one later than
\* lastTimestamp.
ExitWait(p) ==
    \E t \in Clock :
        /\ pc[p] \in {"rollback", "overflow"}
        /\ t > heap[s[p]].lastTimestamp
        /\ (RollbackWait(p, t) \/ OverflowWait(p, t))

\* One process with two goroutines, started by one successful Init, no ID
\* kept on record.
NextFair ==
    \/ \E config \in Configs, tzOK \in BOOLEAN, t \in Clock :
          /\ InitOutcome(config, tzOK, t) = "ok"
          /\ instance[1] = 0
          /\ InitCall(1, config, tzOK, t)
    \/ \E p \in {1, 2} : GetID(p)
    \/ \E p \in {1, 2} : Lock(p)
    \/ \E p \in {1, 2}, t \in Clock : ReadClock(p, t)
    \/ \E p \in {1, 2}, t \in Clock : RollbackWait(p, t)
    \/ \E p \in {1, 2} : SeqStep(p)
    \/ \E p \in {1, 2}, t \in Clock : OverflowWait(p, t)
    \/ \E p \in {1, 2} : Return(p, "none")

\* A goroutine inside nextID keeps running (weak fairness of its steps),
\* sync.Mutex hands the lock to every waiter in the end (its starvation
\* mode: strong fairness of Lock), and a waiting call gets to read a clock
\* value later than lastTimestamp as long as the clock of the model has one.
Fairness ==
    \A p \in {1, 2} :
        /\ SF_vars(Lock(p))
        /\ WF_vars(\E t \in Clock : ReadClock(p, t))
        /\ WF_vars(SeqStep(p))
        /\ WF_vars(ExitWait(p))
        /\ WF_vars(Return(p, "none"))

SpecFair == Init /\ [][NextFair]_vars /\ Fairness

\* One process with two goroutines in which Init is called again while the
\* generator is in use: every successful Init allocates a Snowflake and
\* stores it to `instance`; calls in flight keep the receiver they loaded.
\* The store to `instance` and the load of it in GetID are single steps, and
\* a caller that loads the pointer sees the object as Init constructed it.
NextReinit ==
    \/ \E config \in Configs, tzOK \in BOOLEAN, t \in ShortClock :
          /\ InitOutcome(config, tzOK, t) = "ok"
          /\ InitCall(1, config, tzOK, t)
    \/ \E p \in {1, 2} : GetID(p)
    \/ \E p \in {1, 2} : Lock(p)
    \/ \E p \in {1, 2}, t \in ShortClock : ReadClock(p, t)
    \/ \E p \in {1, 2}, t \in ShortClock : RollbackWait(p, t)
    \/ \E p \in {1, 2} : SeqStep(p)
    \/ \E p \in {1, 2}, t \in ShortClock : OverflowWait(p, t)
    \/ \E p \in {1, 2}, pick \in Picks :
          /\ sample # << >> => pick = "ret"
          /\ Return(p, pick)

SpecReinit == Init /\ [][NextReinit]_vars

\* ------------------------------------------------ review usecase (biz)
\* The repository behind the ReviewRepo interface: GetReviewByOrderID finds
\* the stored rows of order o, SaveReview inserts a row; it has no rule of
\* its own about the rows of one order.
ReviewsOf(o) == {i \in 1 .. Len(reviews) : reviews[i].OrderID = o}
StoreReview(row) == Append(reviews, row)

\* uc.CreateReview(ctx, review) is called by goroutine p for order o.
CreateReview(p, o) ==
    /\ pc[p] = "idle"
    /\ rpc[p] = "none"
    /\ rpc' = [rpc EXCEPT ![p] = "check"]
    /\ review' = [review EXCEPT ![p] = [OrderID |-> o, ReviewID |-> 0,
                                        had |-> ReviewsOf(o) # {}]]
    /\ outcome' = [outcome EXCEPT ![p] = "none"]
    /\ UNCHANGED <<instance, heap, pc, s, now, after, waited, sample, ret,
                   result, reviews>>

\* CreateReview: the query for the reviews of the order (err: it fails), and
\* the two early returns.
GetReviewByOrderID(p, err) ==
    /\ rpc[p] = "check"
    /\ IF err
       THEN /\ rpc' = [rpc EXCEPT ![p] = "none"]
            /\ outcome' = [outcome EXCEPT ![p] = "DbFailed"]
       ELSE IF ReviewsOf(review[p].OrderID) # {}
       THEN /\ rpc' = [rpc EXCEPT ![p] = "none"]
            /\ outcome' = [outcome EXCEPT ![p] = "OrderReviewed"]
       ELSE /\ rpc' = [rpc EXCEPT ![p] = "getid"]
            /\ UNCHANGED outcome
    /\ UNCHANGED <<instance, heap, pc, s, now, after, waited, sample, ret,
                   result, review, reviews>>

\* CreateReview: the call snowflake.GetID(); its panic ends CreateReview.
ReviewGetID(p) ==
    /\ rpc[p] = "getid"
    /\ GetIDCall(p)
    /\ IF instance[NodeOf(p)] = 0
       THEN /\ rpc' = [rpc EXCEPT ![p] = "none"]
            /\ outcome' = [outcome EXCEPT ![p] = "NotInitialized"]
       ELSE UNCHANGED <<rpc, outcome>>
    /\ UNCHANGED <<review, reviews>>

\* CreateReview: review.ReviewID = the value GetID returns.
ReviewSetID(p) ==
    /\ rpc[p] = "getid"
    /\ ReturnID(p, "none")
    /\ review' = [review EXCEPT ![p].ReviewID = Returned(p).id]
    /\ rpc' = [rpc EXCEPT ![p] = "save"]
    /\ UNCHANGED <<reviews, outcome>>

\* CreateReview: return uc.repo.SaveReview(ctx, review); the repository
\* stores the row, or fails (err).
SaveReview(p, err) ==
    /\ rpc[p] = "save"
    /\ rpc' = [rpc EXCEPT ![p] = "none"]
    /\ IF err
       THEN /\ outcome' = [outcome EXCEPT ![p] = "SaveFailed"]
            /\ UNCHANGED reviews
       ELSE /\ outcome' = [outcome EXCEPT ![p] = "ok"]
            /\ reviews' = StoreReview([OrderID  |-> review[p].OrderID,
                                        ReviewID |-> review[p].ReviewID])
    /\ UNCHANGED <<instance, heap, pc, s, now, after, waited, sample, ret,
                   result, review>>

\* The review service: one process started by one successful Init, two
\* goroutines serving CreateReview requests.
NextReview ==
    \/ \E config \in Configs, tzOK \in BOOLEAN, t \in ShortClock :
          /\ InitOutcome(config, tzOK, t) = "ok"
          /\ instance[1] = 0
          /\ InitCall(1, config, tzOK, t)
    \/ \E p \in {1, 2}, o \in Orders : CreateReview(p, o)
    \/ \E p \in {1, 2}, err \in BOOLEAN : GetReviewByOrderID(p, err)
    \/ \E p \in {1, 2} : ReviewGetID(p)
    \/ \E p \in {1, 2} : Lock(p)
    \/ \E p \in {1, 2}, t \in ShortClock : ReadClock(p, t)
    \/ \E p \in {1, 2}, t \in ShortClock : RollbackWait(p, t)
    \/ \E p \in {1, 2} : SeqStep(p)
    \/ \E p \in {1, 2}, t \in ShortClock : OverflowWait(p, t)
    \/ \E p \in {1, 2} : ReviewSetID(p)
    \/ \E p \in {1, 2}, err \in BOOLEAN : SaveReview(p, err)

SpecReview == Init /\ [][NextReview]_vars

\* ------------------------------------------------------------ claims
\* The returned IDs on record.
Returns == {sample[i] : i \in 1 .. Len(sample)} \cup {ret[i] : i \in 1 .. Len(ret)}
\* Both an ID and a later one are on record, from the same instance.
PairOnInstance ==
    /\ sample # << >>
    /\ ret # << >>
    /\ sample[1].inst = ret[1].inst
\* The timestamp offset now - startTime that a returned ID was packed from.
Offset(r) == r.now - heap[r.inst].startTime
\* The offset shifted into the timestamp field still fits the signed word.
OffsetFitsWord(r) ==
    /\ Offset(r) >= 0 - Pow2(timestampBits)
    /\ Offset(r) < Pow2(timestampBits)

\* C1 (as claimed): no two calls served by one instance return the same
\* value, whatever the clock does.
C1_UniqueOnInstance ==
    PairOnInstance => sample[1].id # ret[1].id

\* C1 (amended): no two calls served by one instance return the same value,
\* provided their clock readings are less than 2^(timestampBits+1)
\* milliseconds apart (2^42 in the source).
C1_UniqueWithinSpan ==
    (/\ PairOnInstance
     /\ ret[1].now - sample[1].now < Pow2(timestampBits + 1)
     /\ sample[1].now - ret[1].now < Pow2(timestampBits + 1))
    => sample[1].id # ret[1].id

\* Two IDs of one instance were packed from the same clock reading, the
\* later one with the last sequence number of that millisecond.
C1_Witness ==
    /\ PairOnInstance
    /\ sample[1].now = ret[1].now
    /\ ret[1].seq = maxSequence

\* C2 (as claimed): a call that begins after another call on the same
\* instance has returned gets a strictly greater ID, whatever the clock does.
C2_Monotonic ==
    (PairOnInstance /\ ret[1].after) => sample[1].id < ret[1].id

\* C2 (amended): a call that begins after another call on the same instance
\* has returned gets a strictly greater ID, provided the timestamp offsets
\* of both calls lie in [-2^timestampBits, 2^timestampBits), so that the
\* shifted offset fits the signed word.
C2_MonotonicWithinWord ==
    (/\ PairOnInstance
     /\ ret[1].after
     /\ OffsetFitsWord(sample[1])
     /\ OffsetFitsWord(ret[1]))
    => sample[1].id < ret[1].id

\* A later call whose ID was packed after the clock had been seen behind
\* the timestamp of the earlier call (it waited in the rollback loop, or a
\* call before it did), both offsets fitting the word.
C2_Witness ==
    /\ PairOnInstance
    /\ ret[1].after
    /\ OffsetFitsWord(sample[1])
    /\ OffsetFitsWord(ret[1])
    /\ ret[1].waited = "rollback"

\* C3: every returned ID is non-negative, the timestamp offset it was
\* packed from being at least 0, whatever the clock read after Init.  The
\* claim is made for every clock reading; it is stated here for the readings
\* within the lifetime of the timestamp field (below startTime +
\* 2^timestampBits), which leaves out the wrap of the field that the design
\* accepts.
C3_NonNegative ==
    \A r \in Returns :
        r.now < heap[r.inst].startTime + Pow2(timestampBits)
            => (r.id >= 0 /\ Offset(r) >= 0)

\* C4: every returned ID is the sum of its three fields, each in its own
\* bits: offset * 2^(machineIDBits+sequenceBits) + machineID * 2^sequenceBits
\* + sequence (wrapped to the word), and shifting and masking the ID gives
\* back the configured machine ID and the sequence of the call.
C4_BitLayout ==
    \A r \in Returns :
        /\ r.id = Int64(Offset(r) * Pow2(machineIDBits + sequenceBits)
                        + heap[r.inst].machineID * Pow2(sequenceBits)
                        + r.seq)
        /\ BitAnd(Shr(r.id, sequenceBits), maxMachineID)
               = heap[r.inst].machineID
        /\ BitAnd(r.id, maxSequence) = r.seq

\* An ID with the largest machine ID and the largest sequence, packed from
\* a negative offset.
C4_Witness ==
    \E r \in Returns :
        /\ heap[r.inst].machineID = maxMachineID
        /\ r.seq = maxSequence
        /\ Offset(r) < 0

\* C5: two instances configured with different machine IDs never return
\* the same ID, whatever their clocks and epochs.
C5_CrossNodeUnique ==
    (/\ sample # << >>
     /\ ret # << >>
     /\ heap[sample[1].inst].machineID # heap[ret[1].inst].machineID)
    => sample[1].id # ret[1].id

\* Two nodes with different epochs have returned IDs with the same
\* sequence and the same timestamp offset.
C5_Witness ==
    /\ sample # << >>
    /\ ret # << >>
    /\ sample[1].inst # ret[1].inst
    /\ heap[sample[1].inst].machineID # heap[ret[1].inst].machineID
    /\ heap[sample[1].inst].startTime # heap[ret[1].inst].startTime
    /\ Offset(sample[1]) = Offset(ret[1])
    /\ sample[1].seq = ret[1].seq

\* C6: the k-th ID issued with one timestamp carries sequence k-1, at most
\* maxSequence+1 IDs are issued with one timestamp (a timestamp once left
\* is never used again), and a call that finds the millisecond exhausted
\* waits with the lock held and returns only with a clock reading greater
\* than lastTimestamp, and then with sequence 0.
C6_SequenceRollover ==
    /\ \A r \in Returns :
          /\ r.seq = r.nth - 1
          /\ r.nth <= maxSequence + 1
    /\ \A p \in Procs :
          /\ pc[p] = "pack" => now[p] >= heap[s[p]].lastTimestamp
          /\ (pc[p] = "pack" /\ heap[s[p]].issuedAt = maxSequence + 1)
                => /\ now[p] > heap[s[p]].lastTimestamp
                   /\ heap[s[p]].sequence = 0
          /\ pc[p] = "overflow"
                => /\ heap[s[p]].issuedAt = maxSequence + 1
                   /\ heap[s[p]].mu = p

\* A call has waited out an exhausted millisecond and is about to return.
C6_Witness ==
    \E p \in Procs :
        /\ pc[p] = "pack"
        /\ heap[s[p]].issuedAt = maxSequence + 1
        /\ waited[p] = "overflow"
        /\ heap[s[p]].sequence = 0

\* C7: a call Init(config) (LoadLocation succeeding iff tzOK, the clock
\* reading t) with a machine ID below 0 or above maxMachineID fails with
\* InvalidMachineId and publishes nothing (no clamped instance either);
\* Init with a machine ID in range and a start time that resolves and is not
\* in the future succeeds, and the published instance carries exactly the
\* machine ID supplied.
C7_MachineIDValidation ==
    [][\A config \in Configs, tzOK \in BOOLEAN, t \in ShortClock :
          InitCall(1, config, tzOK, t) =>
             /\ (config.MachineID < 0 \/ config.MachineID > maxMachineID)
                   => /\ result' = "InvalidMachineId"
                      /\ UNCHANGED <<instance, heap>>
             /\ (/\ config.MachineID \in 0 .. maxMachineID
                 /\ \/ config.StartTime = ""
                    \/ tzOK /\ ~ParseInLocation(config.StartTime).err
                 /\ ResolveStartTime(config) <= t)
                   => /\ result' = "ok"
                      /\ instance'[1] # 0
                      /\ instance'[1] # instance[1]
                      /\ heap'[instance'[1]].machineID = config.MachineID
      ]_vars

\* An instance with the largest machine ID is published, and an Init after
\* it has failed on its machine ID.
C7_Witness ==
    /\ result = "InvalidMachineId"
    /\ instance[1] # 0
    /\ heap[instance[1]].machineID = maxMachineID

\* C8: with a machine ID in range and a start time that resolves (empty, or
\* the zone loads and the date parses), Init fails with StartTimeInFuture
\* and publishes nothing when the resolved epoch is later than the clock
\* reading of Init, and succeeds when it is equal or earlier.
C8_StartTimeInFuture ==
    [][\A config \in Configs, tzOK \in BOOLEAN, t \in ShortClock :
          (/\ InitCall(1, config, tzOK, t)
           /\ config.MachineID \in 0 .. maxMachineID
           /\ \/ config.StartTime = ""
              \/ tzOK /\ ~ParseInLocation(config.StartTime).err)
          => LET epoch == IF config.StartTime = "" THEN defaultStartTime
                          ELSE ParseInLocation(config.StartTime).ms
             IN  /\ epoch > t => /\ result' = "StartTimeInFuture"
                                 /\ UNCHANGED <<instance, heap>>
                 /\ epoch <= t => /\ result' = "ok"
                                  /\ instance'[1] = Len(heap) + 1
                                  /\ heap'[instance'[1]].startTime = epoch
      ]_vars

\* An Init has failed on a start time in the future while no instance was
\* published.
C8_Witness ==
    /\ result = "StartTimeInFuture"
    /\ instance[1] = 0

\* C9: a GetID that finds no instance published panics with NotInitialized
\* and changes nothing: no ID is returned, no goroutine moves, no instance
\* appears; a GetID that finds an instance does not panic and enters nextID
\* on that instance.
C9_Uninitialized ==
    [][\A p \in Procs :
          GetID(p) =>
             IF instance[NodeOf(p)] = 0
             THEN /\ result' = "NotInitialized"
                  /\ UNCHANGED <<instance, heap, pc, s, now, sample, ret>>
             ELSE /\ result' = result
                  /\ pc'[p] = "lock"
                  /\ s'[p] = instance[NodeOf(p)]
                  /\ UNCHANGED <<instance, heap, sample, ret>>
      ]_vars

\* A GetID has panicked with NotInitialized.
C9_Witness ==
    /\ result = "NotInitialized"
    /\ instance[1] = 0

\* C10: an Init that fails (machine ID out of range, zone not loaded, start
\* time unparsable or in the future) leaves the global instance and every
\* Snowflake object as they were.
C10_FailedInitPublishesNothing ==
    [][\A config \in Configs, tzOK \in BOOLEAN, t \in ShortClock :
          (/\ InitCall(1, config, tzOK, t)
           /\ \/ config.MachineID < 0
              \/ config.MachineID > maxMachineID
              \/ config.StartTime # "" /\ ~tzOK
              \/ config.StartTime # "" /\ ParseInLocation(config.StartTime).err
              \/ ResolveStartTime(config) > t)
          => /\ UNCHANGED <<instance, heap>>
             /\ result' # "ok"
      ]_vars

\* An Init has failed after an instance was published and had issued IDs.
C10_Witness ==
    /\ result \in {"InvalidMachineId", "LoadLocationFailed",
                   "InvalidStartTime", "StartTimeInFuture"}
    /\ instance[1] # 0
    /\ heap[instance[1]].lastTimestamp >= 0
    /\ heap[instance[1]].sequence > 0

\* Inside the critical section of nextID.
InCS == {"read", "rollback", "seq", "overflow", "pack"}
\* The clock of the model has no reading later than the lastTimestamp of
\* p's receiver.
ClockExhausted(p) == s[p] # 0 /\ heap[s[p]].lastTimestamp >= ClockMax

\* C11: under the fairness of SpecFair every call of GetID on a published
\* instance returns (as long as the clock has a reading later than
\* lastTimestamp to give), the step that returns leaves the mutex free and
\* raises no error, also after the rollback wait or the overflow wait, and
\* the mutex is held only by a call that is inside the critical section.
C11_TerminationAndRelease ==
    /\ \A p \in {1, 2} :
          (pc[p] # "idle") ~> (pc[p] = "idle" \/ ClockExhausted(p))
    /\ [][\A p \in {1, 2} :
             (pc[p] # "idle" /\ pc'[p] = "idle")
                => /\ heap'[s[p]].mu = 0
                   /\ result' = result]_vars
    /\ [](\A i \in 1 .. Len(heap) :
             heap[i].mu # 0 => /\ pc[heap[i].mu] \in InCS
                               /\ s[heap[i].mu] = i)

\* A call that went through the overflow wait is about to return while the
\* other goroutine waits for the lock.
C11_Witness ==
    \E p, q \in {1, 2} :
        /\ pc[p] = "pack"
        /\ waited[p] = "overflow"
        /\ pc[q] = "lock"
        /\ heap[s[p]].lastTimestamp < ClockMax

\* C12: the pair (lastTimestamp, sequence) that a completed nextID call
\* recorded is strictly greater, in lexicographic order, than the pair of
\* every call on the same instance that completed before it; so
\* lastTimestamp never decreases from one completed call to a later one.
C12_PairsIncrease ==
    PairOnInstance =>
        \/ sample[1].now < ret[1].now
        \/ /\ sample[1].now = ret[1].now
           /\ sample[1].seq < ret[1].seq

\* A call that found the clock behind lastTimestamp has completed in a later
\* millisecond than an earlier call that had used a sequence above 0.
C12_Witness ==
    /\ PairOnInstance
    /\ ret[1].waited = "rollback"
    /\ sample[1].seq > 0
    /\ ret[1].now > sample[1].now
    /\ ret[1].seq = 0

\* C13 (as claimed): a call waiting in the rollback loop stops waiting with
\* the first reading that reaches or exceeds lastTimestamp.
C13_WaitUntilReached ==
    [][\A p \in Procs, t \in Clock :
          RollbackWait(p, t) =>
             (pc'[p] = "seq" <=> t >= heap[s[p]].lastTimestamp)
      ]_vars

\* C13 (amended): a call enters the rollback loop iff it reads the clock
\* before lastTimestamp, and stops waiting with the first reading strictly
\* later than lastTimestamp; a reading equal to lastTimestamp keeps it
\* waiting, so it goes on with the handling of a new millisecond.
C13_WaitUntilPassed ==
    /\ [][\A p \in Procs, t \in Clock :
             /\ ReadClock(p, t) =>
                   (pc'[p] = "rollback" <=> t < heap[s[p]].lastTimestamp)
             /\ RollbackWait(p, t) =>
                   /\ pc'[p] = "seq" <=> t > heap[s[p]].lastTimestamp
                   /\ pc'[p] = "rollback" <=> t <= heap[s[p]].lastTimestamp
       ]_vars
    /\ [](\A p \in Procs :
             (pc[p] \in {"seq", "pack"} /\ waited[p] = "rollback")
                => /\ now[p] > heap[s[p]].lastTimestamp
                   /\ pc[p] = "pack" => heap[s[p]].sequence = 0)

\* A call in the rollback loop has read the clock at lastTimestamp and is
\* still waiting.
C13_Witness ==
    \E p \in Procs :
        /\ pc[p] = "rollback"
        /\ now[p] = heap[s[p]].lastTimestamp

\* C14: on one instance at most one nextID call is inside the critical
\* section, it is the holder of the mutex, every other call on that instance
\* stands before Lock (so it neither reads nor writes lastTimestamp or
\* sequence nor returns an ID), also while the call inside waits in the
\* rollback loop or the overflow loop; and the fields of a locked instance
\* change only by a step of the call that holds the mutex.
C14_Serialized ==
    /\ [](\A p \in Procs, q \in Procs :
             (p # q /\ pc[p] \in InCS /\ s[q] = s[p])
                => /\ pc[q] = "lock"
                   /\ heap[s[p]].mu = p)
    /\ [][\A i \in 1 .. Len(heap) :
             heap[i].mu # 0
                => \/ heap'[i] = heap[i]
                   \/ /\ s[heap[i].mu] = i
                      /\ pc'[heap[i].mu] # pc[heap[i].mu]
       ]_vars

\* One call waits in the rollback loop while another call on the same
\* instance stands before Lock.
C14_Witness ==
    \E p \in Procs, q \in Procs :
        /\ p # q
        /\ pc[p] = "rollback"
        /\ pc[q] = "lock"
        /\ s[q] = s[p]

\* C15: every successful Init stores to `instance` a Snowflake of its own
\* with lastTimestamp = -1 and sequence = 0, in place of the one published
\* before; the first nextID call to complete on an instance has not entered
\* the rollback wait nor the same-millisecond branch or the overflow wait,
\* and returns sequence 0 packed with the clock value it read.
C15_FreshState ==
    /\ [][\A config \in Configs, tzOK \in BOOLEAN, t \in ShortClock :
             (InitCall(1, config, tzOK, t) /\ result' = "ok")
                => /\ instance'[1] = Len(heap) + 1
                   /\ instance'[1] # instance[1]
                   /\ Len(heap') = Len(heap) + 1
                   /\ heap'[instance'[1]].lastTimestamp = 0 - 1
                   /\ heap'[instance'[1]].sequence = 0
                   /\ \A i \in 1 .. Len(heap) : heap'[i] = heap[i]
       ]_vars
    /\ [](\A p \in Procs :
             (s[p] # 0 /\ pc[p] \in InCS /\ heap[s[p]].lastTimestamp = 0 - 1)
                => /\ pc[p] \notin {"rollback", "overflow"}
                   /\ waited[p] = ""
                   /\ pc[p] = "seq" => now[p] # heap[s[p]].lastTimestamp
                   /\ pc[p] = "pack"
                         => /\ Returned(p).seq = 0
                            /\ Returned(p).now = now[p]
                            /\ Returned(p).nth = 1
                            /\ Returned(p).id
                                  = Int64((now[p] - heap[s[p]].startTime)
                                             * Pow2(machineIDBits + sequenceBits)
                                          + heap[s[p]].machineID
                                             * Pow2(sequenceBits)))

\* The first call on a second instance is about to return, with a clock
\* reading before the lastTimestamp of the instance that was replaced, which
\* had used a sequence above 0.
C15_Witness ==
    \E p \in Procs :
        /\ Len(heap) = 2
        /\ instance[1] = 2
        /\ s[p] = 2
        /\ pc[p] = "pack"
        /\ heap[2].lastTimestamp = 0 - 1
        /\ heap[1].lastTimestamp > now[p]
        /\ heap[1].sequence > 0

\* C16: when Init is called again with the same machine ID and epoch, no
\* value returned by GetID equals a value returned by an earlier or
\* concurrent GetID, whichever instances served the two calls.
C16_UniqueAcrossReinit ==
    (/\ sample # << >>
     /\ ret # << >>
     /\ heap[sample[1].inst].machineID = heap[ret[1].inst].machineID
     /\ heap[sample[1].inst].startTime = heap[ret[1].inst].startTime)
    => sample[1].id # ret[1].id

\* C17: at most one review is ever stored for an order, whatever the
\* interleaving of the CreateReview calls, and a CreateReview for an order
\* that already had a stored review when it was called goes on neither to
\* snowflake.GetID nor to SaveReview and returns the order-already-reviewed
\* error when its query succeeds.
C17_OneReviewPerOrder ==
    /\ \A o \in Orders : Cardinality(ReviewsOf(o)) <= 1
    /\ \A p \in Procs :
          review[p].had
             => /\ rpc[p] \in {"none", "check"}
                /\ rpc[p] = "none" => outcome[p] \in {"OrderReviewed", "DbFailed"}

\* C18 (as claimed): the stored sequence of an instance is within
\* 0..maxSequence in every reachable state.
C18_SequenceInRange ==
    \A i \in 1 .. Len(heap) : heap[i].sequence \in 0 .. maxSequence

\* C18 (amended): the stored sequence of an instance is within
\* 0..maxSequence+1; it is maxSequence+1 only while the call that holds the
\* mutex waits in the overflow loop, so it is within 0..maxSequence whenever
\* the mutex is free and whenever an ID is packed.
C18_SequenceInRangeUnlessWaiting ==
    \A i \in 1 .. Len(heap) :
        /\ heap[i].sequence \in 0 .. (maxSequence + 1)
        /\ heap[i].sequence = maxSequence + 1
              => /\ heap[i].mu # 0
                 /\ pc[heap[i].mu] = "overflow"
                 /\ s[heap[i].mu] = i

\* A call waits in the overflow loop with the sequence one past its field,
\* the clock read again at lastTimestamp.
C18_Witness ==
    \E p \in Procs :
        /\ pc[p] = "overflow"
        /\ heap[s[p]].sequence = maxSequence + 1
        /\ now[p] = heap[s[p]].lastTimestamp
        /\ heap[s[p]].lastTimestamp > 0

====
